---- MODULE Spec2Model ----
(***************************************************************************)
(* Plot-planning application: the useAppData hook (application state,      *)
(* item edits, collision-checked position changes, collision signal and    *)
(* its timers), the DraggableSVGItem drag session and the PlotDiagramSVG    *)
(* scaling and containment constraints; and, under a specification of     *)
(* their own (CalcSpec), the calculators of the repository.                *)
(*                                                                         *)
(* Lengths of the application state are whole feet.  Lengths of the SVG    *)
(* user space and of the screen are exact rationals <<n, d>> with d > 0,   *)
(* because the feet-to-pixel scale is 500 / (plot size + padding).         *)
(***************************************************************************)
EXTENDS Integers, Sequences, FiniteSets, TLC

VARIABLES inputs, items, floors, surroundings, identificationText,
          collisionItemKey, pendingTimers,
          isDragging, offset, session, last, events, calc,
          storage, pristine

vars == <<inputs, items, floors, surroundings, identificationText,
          collisionItemKey, pendingTimers,
          isDragging, offset, session, last, events, calc,
          storage, pristine>>

\* the parts of appState that the diagram and the placement rules never read
siteData == <<floors, surroundings, identificationText>>

(***************************************************************************)
(* Bounds of the exploration.                                              *)
(***************************************************************************)
\* pointer moves of an open drag session, form edits and resets in one behaviour
MaxEvents == 2
\* screen pixels per SVG user unit of the rendered diagram (layout dependent)
CtmScale == 2
\* screen position of the origin of the plot group (layout dependent)
CtmOrigin == 7

(***************************************************************************)
(* Exact rational arithmetic for SVG and screen coordinates.               *)
(***************************************************************************)
Abs(n) == IF n < 0 THEN -n ELSE n

RECURSIVE GCD(_, _)
GCD(a, b) == IF b = 0 THEN a ELSE GCD(b, a % b)

Rat(n, d) ==
    LET g == GCD(Abs(n), Abs(d))
        s == IF d < 0 THEN -1 ELSE 1
    IN  <<(s * n) \div g, (s * d) \div g>>

R(n) == <<n, 1>>
RAdd(a, b) == Rat(a[1] * b[2] + b[1] * a[2], a[2] * b[2])
RSub(a, b) == Rat(a[1] * b[2] - b[1] * a[2], a[2] * b[2])
RMul(a, b) == Rat(a[1] * b[1], a[2] * b[2])
RDiv(a, b) == Rat(a[1] * b[2], a[2] * b[1])
RLeq(a, b) == a[1] * b[2] <= b[1] * a[2]
RMin(a, b) == IF RLeq(a, b) THEN a ELSE b
RMax(a, b) == IF RLeq(a, b) THEN b ELSE a
IsWhole(a) == a[2] = 1

(***************************************************************************)
(* useAppData: constants and pure helpers.                                 *)
(***************************************************************************)
NULL == "null"

\* property order of the items object (for..in enumerates in this order)
KeyOrder == <<"house", "staircase", "lift", "parking">>
Keys == {KeyOrder[i] : i \in 1..Len(KeyOrder)}

INITIAL_STATE ==
    [inputs |-> [plotWidth |-> 60, plotLength |-> 40, roadWidth |-> 30,
                 setbackFront |-> 5, setbackBack |-> 5,
                 setbackLeft |-> 5, setbackRight |-> 5],
     items |-> [k \in Keys |->
        CASE k = "house"     -> [enabled |-> TRUE, width |-> 30, length |-> 25,
                                 position |-> [x |-> 15, y |-> 10]]
          [] k = "staircase" -> [enabled |-> TRUE, width |-> 10, length |-> 6,
                                 position |-> [x |-> 50, y |-> 10]]
          [] k = "lift"      -> [enabled |-> TRUE, width |-> 6, length |-> 6,
                                 position |-> [x |-> 50, y |-> 18]]
          [] k = "parking"   -> [enabled |-> TRUE, width |-> 20, length |-> 15,
                                 position |-> [x |-> 15, y |-> 15]]],
     surroundings |-> [north |-> "Neighbor's Property",
                       south |-> "30ft Main Road",
                       east |-> "Vacant Plot", west |-> "Park"],
     identificationText |-> "Identified through EC Bill & Customer",
     floors |-> <<[id |-> 1, name |-> "Ground Floor", grossArea |-> 1200],
                  [id |-> 2, name |-> "FF to 3F", grossArea |-> 1200]>>]

(***************************************************************************)
(* localStorage and JSON.  storage is the set of values held under the key *)
(* 'plotDiagramState' (empty, or one JSON text); pristine tells that       *)
(* appState is the INITIAL_STATE object itself, which is what React        *)
(* compares when setAppState(INITIAL_STATE) is called.  A JSON text keeps  *)
(* the object structure as records and sequences; its leaves are the       *)
(* texts of the scalars.                                                   *)
(***************************************************************************)
DigitChars == <<"0", "1", "2", "3", "4", "5", "6", "7", "8", "9">>

RECURSIVE DigitsOf(_)
\* the decimal digits of a natural number
DigitsOf(n) ==
    IF n < 10 THEN <<DigitChars[n + 1]>>
    ELSE IF n < 100 THEN <<DigitChars[(n \div 10) + 1], DigitChars[(n % 10) + 1]>>
    ELSE Append(DigitsOf(n \div 10), DigitChars[(n % 10) + 1])

\* JSON.stringify of an integer
NumText(n) == IF n < 0 THEN <<"-">> \o DigitsOf(0 - n) ELSE DigitsOf(n)

DigitVal(c) == CHOOSE d \in 0..9 : DigitChars[d + 1] = c

RECURSIVE DigitsVal(_)
DigitsVal(t) ==
    IF Len(t) = 0 THEN 0
    ELSE 10 * DigitsVal(SubSeq(t, 1, Len(t) - 1)) + DigitVal(t[Len(t)])

\* JSON.parse of the text of an integer
ParseNum(t) ==
    IF t[1] = "-" THEN 0 - DigitsVal(Tail(t)) ELSE DigitsVal(t)

\* JSON.stringify / JSON.parse of a boolean
BoolText(b) == IF b THEN <<"t", "r", "u", "e">> ELSE <<"f", "a", "l", "s", "e">>
ParseBool(t) == t = <<"t", "r", "u", "e">>

\* JSON.stringify / JSON.parse of a string (no character that needs an
\* escape occurs in the texts of the model)
StrText(str) == <<"\"", str, "\"">>
ParseStr(t) == t[2]

\* JSON.stringify that writes every enabled flag as true
Stringify_enabledLost(st) ==
    [inputs |-> [f \in DOMAIN st.inputs |-> NumText(st.inputs[f])],
     items |-> [k \in DOMAIN st.items |->
        [enabled |-> BoolText(TRUE),
         width |-> NumText(st.items[k].width),
         length |-> NumText(st.items[k].length),
         position |-> [x |-> NumText(st.items[k].position.x),
                       y |-> NumText(st.items[k].position.y)]]],
     floors |-> [i \in DOMAIN st.floors |->
        [id |-> NumText(st.floors[i].id),
         name |-> StrText(st.floors[i].name),
         grossArea |-> NumText(st.floors[i].grossArea)]],
     surroundings |-> [d \in DOMAIN st.surroundings |->
                          StrText(st.surroundings[d])],
     identificationText |-> StrText(st.identificationText)]

\* JSON.stringify(appState)
Stringify(st) ==
    [inputs |-> [f \in DOMAIN st.inputs |-> NumText(st.inputs[f])],
     items |-> [k \in DOMAIN st.items |->
        [enabled |-> BoolText(st.items[k].enabled),
         width |-> NumText(st.items[k].width),
         length |-> NumText(st.items[k].length),
         position |-> [x |-> NumText(st.items[k].position.x),
                       y |-> NumText(st.items[k].position.y)]]],
     floors |-> [i \in DOMAIN st.floors |->
        [id |-> NumText(st.floors[i].id),
         name |-> StrText(st.floors[i].name),
         grossArea |-> NumText(st.floors[i].grossArea)]],
     surroundings |-> [d \in DOMAIN st.surroundings |->
                          StrText(st.surroundings[d])],
     identificationText |-> StrText(st.identificationText)]

\* JSON.parse(savedState)
Parse(t) ==
    [inputs |-> [f \in DOMAIN t.inputs |-> ParseNum(t.inputs[f])],
     items |-> [k \in DOMAIN t.items |->
        [enabled |-> ParseBool(t.items[k].enabled),
         width |-> ParseNum(t.items[k].width),
         length |-> ParseNum(t.items[k].length),
         position |-> [x |-> ParseNum(t.items[k].position.x),
                       y |-> ParseNum(t.items[k].position.y)]]],
     floors |-> [i \in DOMAIN t.floors |->
        [id |-> ParseNum(t.floors[i].id),
         name |-> ParseStr(t.floors[i].name),
         grossArea |-> ParseNum(t.floors[i].grossArea)]],
     surroundings |-> [d \in DOMAIN t.surroundings |->
                          ParseStr(t.surroundings[d])],
     identificationText |-> ParseStr(t.identificationText)]

\* the appState object
AppState ==
    [inputs |-> inputs, items |-> items, floors |-> floors,
     surroundings |-> surroundings, identificationText |-> identificationText]

\* the useState initialiser of appState for the store st
Load(st) ==
    IF st = {} THEN INITIAL_STATE ELSE Parse(CHOOSE t \in st : TRUE)

\* setAppState was called with a new object: the component renders again and
\* the effect stores JSON.stringify(appState)
saveEffect ==
    /\ pristine' = FALSE
    /\ storage' = {Stringify(AppState')}

\* no setAppState call, so the effect does not run
keepStore == UNCHANGED <<storage, pristine>>

\* checkCollision with <= and >= : rectangles that touch collide
checkCollision_nonStrict(item1, item2) ==
    LET rect1 == [x |-> item1.position.x, y |-> item1.position.y,
                  width |-> item1.width, height |-> item1.length]
        rect2 == [x |-> item2.position.x, y |-> item2.position.y,
                  width |-> item2.width, height |-> item2.length]
    IN  /\ rect1.x <= rect2.x + rect2.width
        /\ rect1.x + rect1.width >= rect2.x
        /\ rect1.y <= rect2.y + rect2.height
        /\ rect1.y + rect1.height >= rect2.y

checkCollision(item1, item2) ==
    LET rect1 == [x |-> item1.position.x, y |-> item1.position.y,
                  width |-> item1.width, height |-> item1.length]
        rect2 == [x |-> item2.position.x, y |-> item2.position.y,
                  width |-> item2.width, height |-> item2.length]
    IN  /\ rect1.x < rect2.x + rect2.width
        /\ rect1.x + rect1.width > rect2.x
        /\ rect1.y < rect2.y + rect2.height
        /\ rect1.y + rect1.height > rect2.y

\* calculations.buildableWidth / buildableLength of useAppData
buildableWidth(inp) == inp.plotWidth - inp.setbackLeft - inp.setbackRight
buildableLength(inp) == inp.plotLength - inp.setbackFront - inp.setbackBack

(***************************************************************************)
(* PlotDiagramSVG: scale and the constraints handed to each item.          *)
(***************************************************************************)
MAX_SVG_DIM == 500
PADDING == 60

scale(inp) ==
    RMin(RDiv(R(MAX_SVG_DIM), R(inp.plotWidth + PADDING)),
         RDiv(R(MAX_SVG_DIM), R(inp.plotLength + inp.roadWidth + PADDING)))

constraints(inp, item) ==
    LET sc == scale(inp)
        bW == RMul(R(inp.plotWidth - inp.setbackLeft - inp.setbackRight), sc)
        bL == RMul(R(inp.plotLength - inp.setbackFront - inp.setbackBack), sc)
    IN  [x |-> RMul(R(inp.setbackLeft), sc),
         y |-> RMul(R(inp.setbackFront), sc),
         maxX |-> RSub(RAdd(RMul(R(inp.setbackLeft), sc), bW),
                       RMul(R(item.width), sc)),
         maxY |-> RSub(RAdd(RMul(R(inp.setbackFront), sc), bL),
                       RMul(R(item.length), sc))]

\* props x, y of the DraggableSVGItem of an item
propX(inp, item) == RMul(R(item.position.x), scale(inp))
propY(inp, item) == RMul(R(item.position.y), scale(inp))

(***************************************************************************)
(* Screen geometry.  ParentCTM is the screen transform of the plot group;  *)
(* getScreenCTM of an item's own <g transform="translate(x, y)"> composes  *)
(* that translation with it.                                               *)
(***************************************************************************)
ParentCTM == [a |-> R(CtmScale), d |-> R(CtmScale),
              e |-> R(CtmOrigin), f |-> R(CtmOrigin)]

getScreenCTM(inp, item) ==
    [a |-> ParentCTM.a, d |-> ParentCTM.d,
     e |-> RAdd(ParentCTM.e, RMul(ParentCTM.a, propX(inp, item))),
     f |-> RAdd(ParentCTM.f, RMul(ParentCTM.d, propY(inp, item)))]

\* client coordinates of the pointer when it is over plot point p (feet)
getPointerPosition(inp, p) ==
    [x |-> RAdd(ParentCTM.e, RMul(ParentCTM.a, RMul(R(p.x), scale(inp)))),
     y |-> RAdd(ParentCTM.f, RMul(ParentCTM.d, RMul(R(p.y), scale(inp))))]

(***************************************************************************)
(* Inputs of the environment.                                              *)
(***************************************************************************)
Pt(a, b) == [x |-> a, y |-> b]

\* plot points (feet) the pointer is moved to; a move is explored when the
\* position it reports is a whole number of feet
Pointers == {Pt(0, 0), Pt(8, 8), Pt(100, 100), Pt(45, 10), Pt(40, 5)}

\* point of the item under the pointer at mousedown, relative to its origin
Grabs == {Pt(0, 0)}

\* values typed into an item's Width / Length field
ItemDimVals == {10, 60}

\* values typed into the plot and setback fields
InputEdits == {<<"plotWidth", 15>>, <<"plotWidth", 60>>,
               <<"setbackLeft", 20>>, <<"setbackLeft", 5>>}

\* values typed into a floor's gross-area field
FloorAreaVals == {1000}

\* text typed into the North Side field and into the identification field
SiteTexts == {"Temple"}

\* record of the open drag session: the dragged key, the item position and
\* the pointer at handleDragStart, the pointer of the latest move, and whether
\* every move so far was neither clamped nor rejected
NoSession == [key |-> NULL, start |-> Pt(0, 0), pointer |-> Pt(0, 0),
              current |-> Pt(0, 0), clean |-> FALSE]

\* no drag session is open.  One pointer drives both the diagram and the form:
\* a session opens only when none is open, and form fields and buttons are
\* operated only between sessions.
NoDrag == \A k \in Keys : ~isDragging[k]

\* no calculator has been applied to a drawn input (see the calculator
\* specification below)
NoCalc == [variant |-> "none"]

Event(op, key, field, value, cand, accepted, clamped) ==
    [op |-> op, key |-> key, field |-> field, value |-> value,
     cand |-> cand, accepted |-> accepted, clamped |-> clamped]

(***************************************************************************)
(* Initial state: appState is the compiled-in INITIAL_STATE, no collision  *)
(* signal, every DraggableSVGItem idle with offset {x: 0, y: 0}.           *)
(***************************************************************************)
Init ==
    /\ inputs = INITIAL_STATE.inputs
    /\ items = INITIAL_STATE.items
    /\ floors = INITIAL_STATE.floors
    /\ surroundings = INITIAL_STATE.surroundings
    /\ identificationText = INITIAL_STATE.identificationText
    /\ calc = NoCalc
    /\ collisionItemKey = NULL
    /\ pendingTimers = 0
    /\ isDragging = [k \in Keys |-> FALSE]
    /\ offset = [k \in Keys |-> [x |-> R(0), y |-> R(0)]]
    /\ session = NoSession
    /\ last = Event("init", NULL, NULL, 0, Pt(0, 0), FALSE, FALSE)
    /\ events = 0
    /\ storage = {Stringify(AppState)}
    /\ pristine = TRUE

(***************************************************************************)
(* useAppData.handlePositionChange                                         *)
(***************************************************************************)
\* the collision loop without the test of items[key].enabled
Colliders_allItems(its, itemName, newPosition) ==
    LET currentItem == [its[itemName] EXCEPT !.position = newPosition]
    IN  {i \in 1..Len(KeyOrder) :
            /\ KeyOrder[i] # itemName
            /\ checkCollision(currentItem, its[KeyOrder[i]])}

\* keys of the enabled items other than itemName that the candidate overlaps,
\* as indexes of KeyOrder
Colliders(its, itemName, newPosition) ==
    LET currentItem == [its[itemName] EXCEPT !.position = newPosition]
    IN  {i \in 1..Len(KeyOrder) :
            /\ KeyOrder[i] # itemName
            /\ its[KeyOrder[i]].enabled
            /\ checkCollision(currentItem, its[KeyOrder[i]])}

MinOf(S) == CHOOSE m \in S : \A n \in S : m <= n

\* handlePositionChange without the collision loop
handlePositionChange_noCheck(itemName, newPosition) ==
    /\ items' = [items EXCEPT ![itemName].position = newPosition]
    /\ UNCHANGED <<collisionItemKey, pendingTimers>>

\* handlePositionChange whose accepted branch writes only the x coordinate
handlePositionChange_keepY(itemName, newPosition) ==
    LET hit == Colliders(items, itemName, newPosition)
    IN  IF hit # {}
        THEN /\ collisionItemKey' = KeyOrder[MinOf(hit)]
             /\ pendingTimers' = pendingTimers + 1
             /\ UNCHANGED items
        ELSE /\ items' = [items EXCEPT ![itemName].position.x = newPosition.x]
             /\ UNCHANGED <<collisionItemKey, pendingTimers>>

\* handlePositionChange that signals the dragged item instead of the collider
handlePositionChange_signalSelf(itemName, newPosition) ==
    LET hit == Colliders(items, itemName, newPosition)
    IN  IF hit # {}
        THEN /\ collisionItemKey' = itemName
             /\ pendingTimers' = pendingTimers + 1
             /\ UNCHANGED items
        ELSE /\ items' = [items EXCEPT ![itemName].position = newPosition]
             /\ UNCHANGED <<collisionItemKey, pendingTimers>>

\* handlePositionChange that places the item and pushes the first collider
\* to the right of it
handlePositionChange_push(itemName, newPosition) ==
    LET hit == Colliders(items, itemName, newPosition)
    IN  IF hit # {}
        THEN /\ items' = [items EXCEPT
                             ![itemName].position = newPosition,
                             ![KeyOrder[MinOf(hit)]].position.x =
                                 newPosition.x + items[itemName].width]
             /\ UNCHANGED <<collisionItemKey, pendingTimers>>
        ELSE /\ items' = [items EXCEPT ![itemName].position = newPosition]
             /\ UNCHANGED <<collisionItemKey, pendingTimers>>

handlePositionChange(itemName, newPosition) ==
    LET hit == Colliders(items, itemName, newPosition)
    IN  IF hit # {}
        THEN /\ collisionItemKey' = KeyOrder[MinOf(hit)]
             /\ pendingTimers' = pendingTimers + 1
             /\ UNCHANGED items
        ELSE /\ items' = [items EXCEPT ![itemName].position = newPosition]
             /\ UNCHANGED <<collisionItemKey, pendingTimers>>

\* the setTimeout(() => setCollisionItemKey(null), 500) callback; all timers
\* have the same delay, so they fire in the order they were started
collisionTimeout ==
    /\ pendingTimers > 0
    /\ collisionItemKey' = NULL
    /\ pendingTimers' = pendingTimers - 1
    /\ last' = Event("timeout", NULL, NULL, 0, Pt(0, 0), FALSE, FALSE)
    /\ UNCHANGED <<inputs, items, isDragging, offset, session, events>>
    /\ UNCHANGED <<siteData, calc>>
    /\ keepStore

(***************************************************************************)
(* DraggableSVGItem                                                        *)
(***************************************************************************)
handleDragStart(k, g) ==
    /\ items[k].enabled
    /\ NoDrag
    /\ g.x <= items[k].width /\ g.y <= items[k].length
    /\ LET item == items[k]
           p == Pt(item.position.x + g.x, item.position.y + g.y)
           pos == getPointerPosition(inputs, p)
           CTM == getScreenCTM(inputs, item)
       IN  /\ isDragging' = [isDragging EXCEPT ![k] = TRUE]
           /\ offset' = [offset EXCEPT ![k] =
                  [x |-> RSub(RDiv(RSub(pos.x, CTM.e), CTM.a), propX(inputs, item)),
                   y |-> RSub(RDiv(RSub(pos.y, CTM.f), CTM.d), propY(inputs, item))]]
           /\ session' = [key |-> k, start |-> item.position, pointer |-> p,
                          current |-> p, clean |-> TRUE]
           /\ last' = Event("dragStart", k, NULL, 0, item.position, FALSE, FALSE)
    /\ UNCHANGED <<inputs, items, collisionItemKey, pendingTimers, events>>
    /\ UNCHANGED <<siteData, calc>>
    /\ keepStore

\* unclamped newX, newY of handleDragMove (SVG user units)
dragTarget(k, p) ==
    LET item == items[k]
        pos == getPointerPosition(inputs, p)
        CTM == getScreenCTM(inputs, item)
    IN  [x |-> RSub(RDiv(RSub(pos.x, CTM.e), CTM.a), offset[k].x),
         y |-> RSub(RDiv(RSub(pos.y, CTM.f), CTM.d), offset[k].y)]

\* handleDragMove that applies the lower constraint only
dragClamp_noMax(c, t) ==
    [x |-> RMax(c.x, t.x),
     y |-> RMax(c.y, t.y)]

\* newX, newY after the constraints of handleDragMove (SVG user units)
dragClamp(c, t) ==
    [x |-> RMax(c.x, RMin(t.x, c.maxX)),
     y |-> RMax(c.y, RMin(t.y, c.maxY))]

\* onPositionChange of handleDragMove for the dragging item k
dragMoveOf(k, p) ==
    LET t == dragTarget(k, p)
        n == dragClamp(constraints(inputs, items[k]), t)
        fx == RDiv(n.x, scale(inputs))
        fy == RDiv(n.y, scale(inputs))
        newPosition == Pt(fx[1], fy[1])
    IN  /\ events < MaxEvents
        /\ IsWhole(fx) /\ IsWhole(fy)
        /\ handlePositionChange(k, newPosition)
        /\ events' = events + 1
        /\ session' = [session EXCEPT
                          !.current = p,
                          !.clean = /\ session.clean
                                    /\ n = t
                                    /\ Colliders(items, k, newPosition) = {}]
        /\ last' = Event("dragMove", k, NULL, 0, newPosition,
                         Colliders(items, k, newPosition) = {}, n # t)
        /\ UNCHANGED <<inputs, isDragging, offset, siteData, calc>>
        /\ IF Colliders(items, k, newPosition) = {}
           THEN saveEffect ELSE keepStore

\* the mounted DraggableSVGItem components whose isDragging is true
Dragging == {k \in Keys : items[k].enabled /\ isDragging[k]}

\* a pointer move that reaches no handleDragMove whose isDragging is true: no
\* callback runs, only the record of the latest event changes
idleMove ==
    /\ last' = Event("idleMove", NULL, NULL, 0, Pt(0, 0), FALSE, FALSE)
    /\ UNCHANGED <<inputs, items, collisionItemKey, pendingTimers, isDragging,
                   offset, session, events, siteData, calc>>
    /\ keepStore

\* handleDragMove without the test of isDragging, listening on the document
\* from mount
handleDragMove_alwaysListening(p) ==
    \E k \in {j \in Keys : items[j].enabled} : dragMoveOf(k, p)

\* a mousemove / touchmove event on the document with the pointer over plot
\* point p: handleDragMove of every mounted item runs, and does nothing
\* unless its isDragging is true
handleDragMove(p) ==
    IF Dragging = {}
    THEN idleMove
    ELSE \E k \in Dragging : dragMoveOf(k, p)

\* a mouseup / touchend event on the document: handleDragEnd of every item
\* that listens for it
handleDragEnd ==
    /\ Dragging # {}
    /\ isDragging' = [k \in Keys |-> FALSE]
    /\ session' = NoSession
    /\ last' = Event("dragEnd", session.key, NULL, 0, Pt(0, 0), FALSE, FALSE)
    /\ UNCHANGED <<inputs, items, collisionItemKey, pendingTimers, offset,
                   events, siteData, calc>>
    /\ keepStore

(***************************************************************************)
(* useAppData.handleItemChange, setState('inputs', ...), resetData         *)
(***************************************************************************)
\* handleItemChange without the buildable width / length test
itemChangeResult_noDimCheck(its, inp, key, field, value) ==
    LET updatedItems == [its EXCEPT ![key] = [its[key] EXCEPT ![field] = value]]
        currentItem == updatedItems[key]
    IN  IF \E otherKey \in Keys :
               /\ key # otherKey
               /\ updatedItems[otherKey].enabled
               /\ checkCollision(currentItem, updatedItems[otherKey])
        THEN its
        ELSE updatedItems

\* handleItemChange whose collision loop is skipped for width and length edits
itemChangeResult_noDimCollision(its, inp, key, field, value) ==
    LET updatedItems == [its EXCEPT ![key] = [its[key] EXCEPT ![field] = value]]
        currentItem == updatedItems[key]
    IN  IF \/ (field = "width" /\ value > buildableWidth(inp))
           \/ (field = "length" /\ value > buildableLength(inp))
        THEN its
        ELSE IF /\ field \notin {"width", "length"}
                /\ \E otherKey \in Keys :
                      /\ key # otherKey
                      /\ updatedItems[otherKey].enabled
                      /\ checkCollision(currentItem, updatedItems[otherKey])
             THEN its
             ELSE updatedItems

\* the items map after a call of handleItemChange(key, field, value)
itemChangeResult(its, inp, key, field, value) ==
    LET updatedItems == [its EXCEPT ![key] = [its[key] EXCEPT ![field] = value]]
        currentItem == updatedItems[key]
    IN  IF \/ (field = "width" /\ value > buildableWidth(inp))
           \/ (field = "length" /\ value > buildableLength(inp))
        THEN its
        ELSE IF \E otherKey \in Keys :
                   /\ key # otherKey
                   /\ updatedItems[otherKey].enabled
                   /\ checkCollision(currentItem, updatedItems[otherKey])
             THEN its
             ELSE updatedItems

\* handleItemChange(key, field, value) returns before it calls setAppState
itemChangeReturns(its, inp, key, field, value) ==
    LET updatedItems == [its EXCEPT ![key] = [its[key] EXCEPT ![field] = value]]
        currentItem == updatedItems[key]
    IN  \/ (field = "width" /\ value > buildableWidth(inp))
        \/ (field = "length" /\ value > buildableLength(inp))
        \/ \E otherKey \in Keys :
              /\ key # otherKey
              /\ updatedItems[otherKey].enabled
              /\ checkCollision(currentItem, updatedItems[otherKey])

\* a DraggableSVGItem exists only while its item is enabled; a remounted
\* component starts from useState(false) and useRef({x: 0, y: 0})
Remount(newItems, f, fresh) ==
    [k \in Keys |-> IF newItems[k].enabled = items[k].enabled THEN f[k] ELSE fresh]

handleItemChange(key, field, value) ==
    /\ NoDrag
    /\ events < MaxEvents
    /\ field \in {"width", "length"} => items[key].enabled
    /\ items' = itemChangeResult(items, inputs, key, field, value)
    /\ isDragging' = Remount(items', isDragging, FALSE)
    /\ offset' = Remount(items', offset, [x |-> R(0), y |-> R(0)])
    /\ events' = events + 1
    /\ last' = Event("itemChange", key, field,
                     IF field = "enabled" THEN (IF value THEN 1 ELSE 0) ELSE value,
                     items[key].position, items' # items, FALSE)
    /\ UNCHANGED <<inputs, collisionItemKey, pendingTimers, session,
                   siteData, calc>>
    /\ IF itemChangeReturns(items, inputs, key, field, value)
       THEN keepStore ELSE saveEffect

\* setState('inputs', ...) that also moves every item right of the new left
\* setback
setInput_reclamp(f, v) ==
    /\ NoDrag
    /\ events < MaxEvents
    /\ inputs' = [inputs EXCEPT ![f] = v]
    /\ items' = [k \in Keys |->
                    IF items[k].position.x < inputs'.setbackLeft
                    THEN [items[k] EXCEPT !.position.x = inputs'.setbackLeft]
                    ELSE items[k]]
    /\ events' = events + 1
    /\ last' = Event("setInput", NULL, f, v, Pt(0, 0), TRUE, FALSE)
    /\ UNCHANGED <<collisionItemKey, pendingTimers, isDragging, offset,
                   session, siteData, calc>>
    /\ saveEffect

\* onChange of a plot or setback field: setState('inputs', {...inputs, f: v})
setInput(f, v) ==
    /\ NoDrag
    /\ events < MaxEvents
    /\ inputs' = [inputs EXCEPT ![f] = v]
    /\ events' = events + 1
    /\ last' = Event("setInput", NULL, f, v, Pt(0, 0), TRUE, FALSE)
    /\ UNCHANGED <<items, collisionItemKey, pendingTimers, isDragging, offset,
                   session, siteData, calc>>
    /\ saveEffect

\* resetData that restores the defaults and leaves the store alone
resetData_keepsSnapshot(confirmed) ==
    /\ NoDrag
    /\ events < MaxEvents
    /\ IF confirmed
       THEN /\ inputs' = INITIAL_STATE.inputs
            /\ items' = INITIAL_STATE.items
            /\ floors' = INITIAL_STATE.floors
            /\ surroundings' = INITIAL_STATE.surroundings
            /\ identificationText' = INITIAL_STATE.identificationText
            /\ pristine' = TRUE
            /\ UNCHANGED storage
       ELSE UNCHANGED <<inputs, items, siteData, storage, pristine>>
    /\ isDragging' = Remount(items', isDragging, FALSE)
    /\ offset' = Remount(items', offset, [x |-> R(0), y |-> R(0)])
    /\ events' = events + 1
    /\ last' = Event("reset", NULL, NULL, 0, Pt(0, 0), confirmed, FALSE)
    /\ UNCHANGED <<collisionItemKey, pendingTimers, session, calc>>

\* resetData: after window.confirm, localStorage.removeItem and
\* setAppState(INITIAL_STATE); when appState already is the INITIAL_STATE
\* object React bails out and the save effect does not run, otherwise the
\* effect stores the snapshot of INITIAL_STATE
resetData(confirmed) ==
    /\ NoDrag
    /\ events < MaxEvents
    /\ IF confirmed
       THEN /\ inputs' = INITIAL_STATE.inputs
            /\ items' = INITIAL_STATE.items
            /\ floors' = INITIAL_STATE.floors
            /\ surroundings' = INITIAL_STATE.surroundings
            /\ identificationText' = INITIAL_STATE.identificationText
            /\ pristine' = TRUE
            /\ storage' = IF pristine THEN {}
                          ELSE {Stringify(INITIAL_STATE)}
       ELSE UNCHANGED <<inputs, items, siteData, storage, pristine>>
    /\ isDragging' = Remount(items', isDragging, FALSE)
    /\ offset' = Remount(items', offset, [x |-> R(0), y |-> R(0)])
    /\ events' = events + 1
    /\ last' = Event("reset", NULL, NULL, 0, Pt(0, 0), confirmed, FALSE)
    /\ UNCHANGED <<collisionItemKey, pendingTimers, session, calc>>

\* App.handleFloorChange: setState('floors', floors.map(...))
handleFloorChange(id, field, value) ==
    /\ NoDrag
    /\ events < MaxEvents
    /\ floors' = [i \in DOMAIN floors |->
                     IF floors[i].id = id
                     THEN [floors[i] EXCEPT ![field] = value]
                     ELSE floors[i]]
    /\ events' = events + 1
    /\ last' = Event("floorChange", NULL, field, value, Pt(0, 0), TRUE, FALSE)
    /\ UNCHANGED <<inputs, items, surroundings, identificationText,
                   collisionItemKey, pendingTimers, isDragging, offset,
                   session, calc>>
    /\ saveEffect

\* onChange of a Site Details field:
\* setState('surroundings', {...surroundings, side: text})
setSurroundings(side, text) ==
    /\ NoDrag
    /\ events < MaxEvents
    /\ surroundings' = [surroundings EXCEPT ![side] = text]
    /\ events' = events + 1
    /\ last' = Event("setSurroundings", NULL, side, 0, Pt(0, 0), TRUE, FALSE)
    /\ UNCHANGED <<inputs, items, floors, identificationText,
                   collisionItemKey, pendingTimers, isDragging, offset,
                   session, calc>>
    /\ saveEffect

\* onChange of the identification field: setState('identificationText', text)
setIdentificationText(text) ==
    /\ NoDrag
    /\ events < MaxEvents
    /\ identificationText' = text
    /\ events' = events + 1
    /\ last' = Event("setIdentificationText", NULL, NULL, 0, Pt(0, 0),
                     TRUE, FALSE)
    /\ UNCHANGED <<inputs, items, floors, surroundings,
                   collisionItemKey, pendingTimers, isDragging, offset,
                   session, calc>>
    /\ saveEffect

(***************************************************************************)
(* Specification                                                           *)
(***************************************************************************)
\* the page is loaded again: a new session whose useState initialiser reads
\* the store, followed by the save effect of the first render
reload ==
    /\ inputs' = Load(storage).inputs
    /\ items' = Load(storage).items
    /\ floors' = Load(storage).floors
    /\ surroundings' = Load(storage).surroundings
    /\ identificationText' = Load(storage).identificationText
    /\ pristine' = (storage = {})
    /\ storage' = {Stringify(AppState')}
    /\ collisionItemKey' = NULL
    /\ pendingTimers' = 0
    /\ isDragging' = [k \in Keys |-> FALSE]
    /\ offset' = [k \in Keys |-> [x |-> R(0), y |-> R(0)]]
    /\ session' = NoSession
    /\ last' = Event("reload", NULL, NULL, 0, Pt(0, 0), TRUE, FALSE)
    /\ UNCHANGED <<events, calc>>

Next ==
    \/ \E k \in Keys, g \in Grabs : handleDragStart(k, g)
    \/ \E p \in Pointers : handleDragMove(p)
    \/ handleDragEnd
    \/ \E k \in Keys, v \in ItemDimVals : handleItemChange(k, "width", v)
    \/ \E k \in Keys, v \in ItemDimVals : handleItemChange(k, "length", v)
    \/ \E k \in Keys : handleItemChange(k, "enabled", ~items[k].enabled)
    \/ \E e \in InputEdits : setInput(e[1], e[2])
    \/ \E c \in BOOLEAN : resetData(c)
    \/ \E i \in DOMAIN floors, v \in FloorAreaVals :
          handleFloorChange(floors[i].id, "grossArea", v)
    \/ \E t \in SiteTexts : setSurroundings("north", t)
    \/ \E t \in SiteTexts : setIdentificationText(t)
    \/ collisionTimeout

Spec == Init /\ [][Next]_vars

(***************************************************************************)
(* The calculators.  Four versions of the calculations memo exist in the   *)
(* repository: the footprint calculator (part_000), the floor-list         *)
(* calculator (part_004) and the per-floor deduction calculator in two     *)
(* copies (src/App.jsx and the useAppData hook of part_003).  All numbers  *)
(* are finite; a quotient is an exact rational, and a division by zero     *)
(* gives the IEEE values NaN and Infinity.                                 *)
(***************************************************************************)
IMax(a, b) == IF a >= b THEN a ELSE b
IMin(a, b) == IF a <= b THEN a ELSE b

NaN == <<0, 0>>
Infinity == <<1, 0>>
IsFinite(a) == a[2] # 0

\* the operator / of JavaScript on two finite numbers
JSDiv(a, b) ==
    IF a = NaN \/ b = NaN THEN NaN
    ELSE IF b[1] # 0 /\ IsFinite(a) /\ IsFinite(b) THEN RDiv(a, b)
    ELSE IF ~IsFinite(a) /\ ~IsFinite(b) THEN NaN
    ELSE IF ~IsFinite(a) THEN <<IF (a[1] > 0) = (b[1] >= 0) THEN 1 ELSE -1, 0>>
    ELSE IF ~IsFinite(b) THEN R(0)
    ELSE IF a[1] = 0 THEN NaN
    ELSE IF a[1] > 0 THEN Infinity
    ELSE <<-1, 0>>

\* the operator * of JavaScript on two numbers
JSMul(a, b) ==
    IF IsFinite(a) /\ IsFinite(b) THEN RMul(a, b)
    ELSE IF a = NaN \/ b = NaN \/ a[1] = 0 \/ b[1] = 0 THEN NaN
    ELSE IF (a[1] > 0) = (b[1] > 0) THEN Infinity
    ELSE <<-1, 0>>

\* the operator <= of JavaScript on two numbers
JSLeq(a, b) == a # NaN /\ b # NaN /\ RLeq(a, b)

\* num / plotArea without the test of plotArea
ratioOrZero_unguarded(num, plotArea) == JSDiv(R(num), R(plotArea))

\* plotArea > 0 ? num / plotArea : 0
ratioOrZero(num, plotArea) ==
    IF plotArea > 0 THEN JSDiv(R(num), R(plotArea)) ELSE R(0)

\* the footprint taken as requested
actualBuilding_unclamped(requested, buildable) == requested

\* Math.min(buildingFootprintWidth, buildableWidth), and the same for length
actualBuilding(requested, buildable) == IMin(requested, buildable)

\* the flag computed from the clamped footprint
withinBuildableArea_fromClamped(fw, fl, bw, bl) ==
    IMin(fw, bw) <= bw /\ IMin(fl, bl) <= bl

\* isBuildingWithinBuildableArea of the footprint calculator
withinBuildableArea(fw, fl, bw, bl) == fw <= bw /\ fl <= bl

\* the built-up area counted for the floors above the ground floor only
totalBUAOf_upperFloorsOnly(groundFloorArea, floorCount) ==
    groundFloorArea * (floorCount - 1)

\* groundFloorArea * floors
totalBUAOf(groundFloorArea, floorCount) == groundFloorArea * floorCount

\* calculations of the footprint calculator
footprintCalculations(in) ==
    LET plotArea == in.plotWidth * in.plotLength
        bW == IMax(0, in.plotWidth - in.setbackLeft - in.setbackRight)
        bL == IMax(0, in.plotLength - in.setbackFront - in.setbackBack)
        actualBuildingWidth == actualBuilding(in.buildingFootprintWidth, bW)
        actualBuildingLength == actualBuilding(in.buildingFootprintLength, bL)
        groundFloorArea == actualBuildingWidth * actualBuildingLength
        totalBUA == totalBUAOf(groundFloorArea, in.floors)
        groundCoverage == JSMul(ratioOrZero(groundFloorArea, plotArea), R(100))
        far == ratioOrZero(totalBUA, plotArea)
    IN  [plotArea |-> plotArea,
         buildableArea |-> bW * bL,
         groundFloorArea |-> groundFloorArea,
         totalBUA |-> totalBUA,
         groundCoverage |-> groundCoverage,
         far |-> far,
         buildableWidth |-> bW,
         buildableLength |-> bL,
         actualBuildingWidth |-> actualBuildingWidth,
         actualBuildingLength |-> actualBuildingLength,
         totalBuildingHeight |-> in.floors * in.buildingHeightPerFloor,
         isGroundCoverageCompliant |->
             JSLeq(groundCoverage, R(in.maxGroundCoverageLimit)),
         isFARCompliant |-> JSLeq(far, R(in.maxFARLimit)),
         isBuildingWithinBuildableArea |->
             withinBuildableArea(in.buildingFootprintWidth,
                                 in.buildingFootprintLength, bW, bL)]

RECURSIVE SumBy(_, _)
\* floors.reduce((sum, f) => sum + f[field], 0)
SumBy(fl, field) ==
    IF fl = <<>> THEN 0
    ELSE SumBy(SubSeq(fl, 1, Len(fl) - 1), field) + fl[Len(fl)][field]

\* calculations of the floor-list calculator
floorListCalculations(in) ==
    LET plotArea == in.plotWidth * in.plotLength
        totalBUA == SumBy(in.floors, "bua")
        groundFloorBUA == IF in.floors = <<>> THEN 0 ELSE in.floors[1].bua
    IN  [plotArea |-> plotArea,
         totalBUA |-> totalBUA,
         groundCoverage |->
             JSMul(ratioOrZero(groundFloorBUA, plotArea), R(100)),
         far |-> ratioOrZero(totalBUA, plotArea)]

\* the parking area deducted from the floor at every index
parkingDeduction_everyFloor(index, parkingArea) == parkingArea

\* index === 0 ? parkingArea : 0 (a sequence of the model starts at index 1)
parkingDeduction(index, parkingArea) == IF index = 1 THEN parkingArea ELSE 0

\* floorCalculations, totalNetBUA and far of the per-floor deduction mode
deductionOf(fl, plotArea, setbackArea, parkingArea, staircaseArea, liftArea) ==
    LET floorCalculations ==
            [index \in DOMAIN fl |->
                LET gross == fl[index].grossArea
                    netBua == gross - parkingDeduction(index, parkingArea)
                                - staircaseArea - liftArea - setbackArea
                IN  [id |-> fl[index].id, grossArea |-> gross,
                     netBua |-> IMax(0, netBua),
                     parkingDeduction |-> parkingDeduction(index, parkingArea),
                     staircaseArea |-> staircaseArea, liftArea |-> liftArea,
                     setbackArea |-> setbackArea]]
        totalNetBUA == SumBy(floorCalculations, "netBua")
    IN  [floorCalculations |-> floorCalculations,
         totalNetBUA |-> totalNetBUA,
         far |-> ratioOrZero(totalNetBUA, plotArea)]

\* calculations of src/App.jsx; inp carries addParking, parkingWidth, ...
deductionCalculations(inp, fl) ==
    LET plotArea == inp.plotWidth * inp.plotLength
        bW == inp.plotWidth - inp.setbackLeft - inp.setbackRight
        bL == inp.plotLength - inp.setbackFront - inp.setbackBack
        buildableArea == bW * bL
        setbackArea == plotArea - buildableArea
        parkingArea == IF inp.addParking
                       THEN inp.parkingWidth * inp.parkingLength ELSE 0
        staircaseArea == IF inp.addStaircase
                         THEN inp.staircaseWidth * inp.staircaseLength ELSE 0
        liftArea == IF inp.addLift THEN inp.liftWidth * inp.liftLength ELSE 0
        d == deductionOf(fl, plotArea, setbackArea, parkingArea,
                         staircaseArea, liftArea)
    IN  [plotArea |-> plotArea, buildableArea |-> buildableArea,
         setbackArea |-> setbackArea, parkingArea |-> parkingArea,
         staircaseArea |-> staircaseArea, liftArea |-> liftArea,
         floorCalculations |-> d.floorCalculations,
         totalNetBUA |-> d.totalNetBUA, far |-> d.far]

\* calculations of useAppData
calculations(inp, its, fl) ==
    LET plotArea == inp.plotWidth * inp.plotLength
        buildableArea == buildableWidth(inp) * buildableLength(inp)
        setbackArea == plotArea - buildableArea
        itemAreas == [k \in Keys |->
                         IF its[k].enabled THEN its[k].width * its[k].length
                         ELSE 0]
        d == deductionOf(fl, plotArea, setbackArea, itemAreas["parking"],
                         itemAreas["staircase"], itemAreas["lift"])
    IN  [plotArea |-> plotArea, buildableArea |-> buildableArea,
         buildableWidth |-> buildableWidth(inp),
         buildableLength |-> buildableLength(inp),
         setbackArea |-> setbackArea,
         totalAllowableFloorArea |-> buildableArea * Len(fl),
         floorCalculations |-> d.floorCalculations,
         totalNetBUA |-> d.totalNetBUA, far |-> d.far,
         parkingArea |-> itemAreas["parking"],
         staircaseArea |-> itemAreas["staircase"],
         liftArea |-> itemAreas["lift"], houseArea |-> itemAreas["house"]]

(***************************************************************************)
(* Values as the form delivers them.  A field of the state holds either    *)
(* the number of the compiled-in defaults or the text of e.target.value.   *)
(***************************************************************************)
Num(n) == [type |-> "number", text |-> "", num |-> R(n)]
Str(t) == [type |-> "string", text |-> t, num |-> NaN]

\* text typed into a field
Texts == {"", "abc", "-5", "20", "60"}

\* parseFloat of a text of Texts
ParseText(t) ==
    CASE t = "-5" -> R(0 - 5)
      [] t = "20" -> R(20)
      [] t = "60" -> R(60)
      [] OTHER -> NaN

\* parseFloat(v)
parseFloat(v) == IF v.type = "number" THEN v.num ELSE ParseText(v.text)

\* x || 0 on a number: NaN and 0 are falsy
OrZero(x) == IF x = NaN \/ x[1] = 0 THEN R(0) ELSE x

\* the operator - of JavaScript on two numbers
JSSub(a, b) ==
    IF IsFinite(a) /\ IsFinite(b) THEN RSub(a, b)
    ELSE IF a = NaN \/ b = NaN \/ a = b THEN NaN
    ELSE IF ~IsFinite(a) THEN a
    ELSE <<0 - b[1], 0>>

\* the operator + of JavaScript on two numbers
JSAdd(a, b) ==
    IF IsFinite(a) /\ IsFinite(b) THEN RAdd(a, b)
    ELSE IF a = NaN \/ b = NaN THEN NaN
    ELSE IF IsFinite(b) THEN a
    ELSE IF IsFinite(a) \/ a = b THEN b
    ELSE NaN

\* Math.max(0, x)
JSMax0(x) == IF x = NaN THEN NaN ELSE RMax(R(0), x)

\* a > 0 on a number
JSPositive(a) == a # NaN /\ a[1] > 0

\* the value handleChange of the footprint calculator stores for a typed text
handleChangeValue(text) == JSMax0(OrZero(ParseText(text)))

RECURSIVE JSSumBy(_, _)
\* floors.reduce((sum, f) => sum + f[field], 0) on numbers
JSSumBy(fl, field) ==
    IF fl = <<>> THEN R(0)
    ELSE JSAdd(JSSumBy(SubSeq(fl, 1, Len(fl) - 1), field), fl[Len(fl)][field])

\* calculations of useAppData on the values as stored: inp, the width and
\* length of its and the grossArea of fl hold numbers or texts
rawCalculations(inp, its, fl) ==
    LET pW == OrZero(parseFloat(inp.plotWidth))
        pL == OrZero(parseFloat(inp.plotLength))
        sL == OrZero(parseFloat(inp.setbackLeft))
        sR == OrZero(parseFloat(inp.setbackRight))
        sF == OrZero(parseFloat(inp.setbackFront))
        sB == OrZero(parseFloat(inp.setbackBack))
        plotArea == JSMul(pW, pL)
        bW == JSSub(JSSub(pW, sL), sR)
        bL == JSSub(JSSub(pL, sF), sB)
        buildableArea == JSMul(bW, bL)
        setbackArea == JSSub(plotArea, buildableArea)
        itemAreas == [k \in Keys |->
                         IF its[k].enabled
                         THEN JSMul(parseFloat(its[k].width),
                                    parseFloat(its[k].length))
                         ELSE R(0)]
        floorCalculations ==
            [index \in DOMAIN fl |->
                LET gross == OrZero(parseFloat(fl[index].grossArea))
                    netBua ==
                        JSSub(JSSub(JSSub(JSSub(gross,
                            IF index = 1 THEN itemAreas["parking"] ELSE R(0)),
                            itemAreas["staircase"]), itemAreas["lift"]),
                            setbackArea)
                IN  [id |-> fl[index].id, netBua |-> JSMax0(netBua)]]
        totalNetBUA == JSSumBy(floorCalculations, "netBua")
    IN  [plotArea |-> plotArea, buildableArea |-> buildableArea,
         buildableWidth |-> bW, buildableLength |-> bL,
         setbackArea |-> setbackArea,
         totalAllowableFloorArea |-> JSMul(buildableArea, R(Len(fl))),
         floorCalculations |-> floorCalculations,
         totalNetBUA |-> totalNetBUA,
         far |-> IF JSPositive(plotArea) THEN JSDiv(totalNetBUA, plotArea)
                 ELSE R(0),
         parkingArea |-> itemAreas["parking"],
         staircaseArea |-> itemAreas["staircase"],
         liftArea |-> itemAreas["lift"], houseArea |-> itemAreas["house"]]

\* texts typed into Plot Width, Footprint Width and Floors of the footprint
\* calculator, the other fields at their defaults
RawFootprintInputs ==
    [mode : {"rawFootprint"}, plotWidth : Texts,
     buildingFootprintWidth : Texts, floors : Texts]

\* the inputs state of the footprint calculator after the texts were typed
FootprintStateOf(in) ==
    [mode |-> "footprint",
     plotWidth |-> handleChangeValue(in.plotWidth)[1], plotLength |-> 100,
     setbackLeft |-> 8, setbackRight |-> 8,
     setbackFront |-> 15, setbackBack |-> 10,
     buildingFootprintWidth |-> handleChangeValue(in.buildingFootprintWidth)[1],
     buildingFootprintLength |-> 60,
     floors |-> handleChangeValue(in.floors)[1], buildingHeightPerFloor |-> 10,
     maxGroundCoverageLimit |-> 60, maxFARLimit |-> 2]

\* values of Plot W, of the parking Width and of the ground floor's gross
\* area in useAppData, the rest of the state at INITIAL_STATE
RawValues == {Num(60), Num(20), Num(1200)} \cup {Str(t) : t \in Texts}

RawAppDataInputs ==
    [mode : {"rawAppData"}, plotWidth : RawValues \ {Num(20), Num(1200)},
     parkingWidth : RawValues \ {Num(60), Num(1200)},
     grossArea : RawValues \ {Num(60), Num(20)}]

\* the appState of useAppData that holds the drawn values
RawInputsOf(in) ==
    [f \in DOMAIN INITIAL_STATE.inputs |->
        IF f = "plotWidth" THEN in.plotWidth ELSE Num(INITIAL_STATE.inputs[f])]

RawItemsOf(in) ==
    [k \in Keys |->
        [enabled |-> INITIAL_STATE.items[k].enabled,
         width |-> IF k = "parking" THEN in.parkingWidth
                   ELSE Num(INITIAL_STATE.items[k].width),
         length |-> Num(INITIAL_STATE.items[k].length)]]

RawFloorsOf(in) ==
    [i \in DOMAIN INITIAL_STATE.floors |->
        [id |-> INITIAL_STATE.floors[i].id,
         grossArea |-> IF i = 1 THEN in.grossArea
                       ELSE Num(INITIAL_STATE.floors[i].grossArea)]]

(***************************************************************************)
(* Calculator specification: an input is drawn, then one calculator that   *)
(* takes inputs of that shape is applied to it.                            *)
(***************************************************************************)
\* longest floor list drawn
MaxFloors == 2

\* gross / built-up areas typed for a floor
FloorAreas == {300, 2000}

AreaLists == UNION {[1..n -> FloorAreas] : n \in 0..MaxFloors}

FootprintInputs ==
    [mode : {"footprint"},
     plotWidth : {0, 50}, plotLength : {0, 100},
     setbackLeft : {8, 30}, setbackRight : {8, 30},
     setbackFront : {15}, setbackBack : {10, 90},
     buildingFootprintWidth : {30, 40}, buildingFootprintLength : {60, 80},
     floors : {0, 3}, buildingHeightPerFloor : {10},
     maxGroundCoverageLimit : {60}, maxFARLimit : {2}]

FloorListInputs ==
    [mode : {"floorList"},
     plotWidth : {0, 60}, plotLength : {0, 40},
     floors : {[i \in DOMAIN a |-> [id |-> i, bua |-> a[i]]] : a \in AreaLists}]

DeductionInputs ==
    [mode : {"deduction"},
     inputs : {[INITIAL_STATE.inputs EXCEPT !.plotWidth = w, !.setbackLeft = l] :
                  w \in {0, 60}, l \in {5, 40}},
     items : {[k \in Keys |->
                  [INITIAL_STATE.items[k] EXCEPT !.enabled = (k \in on)]] :
                  on \in SUBSET {"staircase", "parking"}},
     floors : {[i \in DOMAIN a |-> [id |-> i, grossArea |-> a[i]]] :
                  a \in AreaLists}]

\* the inputs state of src/App.jsx that describes the same plot and items
AppInputs(in) ==
    [plotWidth |-> in.inputs.plotWidth, plotLength |-> in.inputs.plotLength,
     setbackLeft |-> in.inputs.setbackLeft,
     setbackRight |-> in.inputs.setbackRight,
     setbackFront |-> in.inputs.setbackFront,
     setbackBack |-> in.inputs.setbackBack,
     addStaircase |-> in.items["staircase"].enabled,
     staircaseWidth |-> in.items["staircase"].width,
     staircaseLength |-> in.items["staircase"].length,
     addLift |-> in.items["lift"].enabled,
     liftWidth |-> in.items["lift"].width,
     liftLength |-> in.items["lift"].length,
     addParking |-> in.items["parking"].enabled,
     parkingWidth |-> in.items["parking"].width,
     parkingLength |-> in.items["parking"].length]

CalcInit ==
    /\ inputs = INITIAL_STATE.inputs
    /\ items = INITIAL_STATE.items
    /\ floors = INITIAL_STATE.floors
    /\ surroundings = INITIAL_STATE.surroundings
    /\ identificationText = INITIAL_STATE.identificationText
    /\ collisionItemKey = NULL
    /\ pendingTimers = 0
    /\ isDragging = [k \in Keys |-> FALSE]
    /\ offset = [k \in Keys |-> [x |-> R(0), y |-> R(0)]]
    /\ session = NoSession
    /\ last = Event("init", NULL, NULL, 0, Pt(0, 0), FALSE, FALSE)
    /\ events = 0
    /\ storage = {Stringify(AppState)}
    /\ pristine = TRUE
    /\ \E in \in FootprintInputs \cup FloorListInputs \cup DeductionInputs
                  \cup RawFootprintInputs \cup RawAppDataInputs :
          calc = [variant |-> "input", in |-> in]

Apply(mode, variant, out) ==
    /\ calc.variant = "input"
    /\ calc.in.mode = mode
    /\ calc' = [variant |-> variant, in |-> calc.in, out |-> out]
    /\ UNCHANGED <<inputs, items, siteData, collisionItemKey, pendingTimers,
                   isDragging, offset, session, last, events>>
    /\ keepStore

applyFootprint == Apply("footprint", "footprint", footprintCalculations(calc.in))

applyFloorList == Apply("floorList", "floorList", floorListCalculations(calc.in))

applyDeduction ==
    Apply("deduction", "deduction",
          deductionCalculations(AppInputs(calc.in), calc.in.floors))

applyUseAppData ==
    Apply("deduction", "useAppData",
          calculations(calc.in.inputs, calc.in.items, calc.in.floors))

\* the texts are typed (handleChange), then the footprint calculator runs
applyRawFootprint ==
    Apply("rawFootprint", "rawFootprint",
          footprintCalculations(FootprintStateOf(calc.in)))

\* the values are stored as they are, then calculations of useAppData runs
applyRawAppData ==
    Apply("rawAppData", "rawAppData",
          rawCalculations(RawInputsOf(calc.in), RawItemsOf(calc.in),
                          RawFloorsOf(calc.in)))

CalcNext ==
    \/ applyRawFootprint
    \/ applyRawAppData
    \/ applyFootprint
    \/ applyFloorList
    \/ applyDeduction
    \/ applyUseAppData

CalcSpec == CalcInit /\ [][CalcNext]_vars

(***************************************************************************)
(* Properties                                                              *)
(***************************************************************************)
(***************************************************************************)
(* Floor Management of App.jsx: the floor list under Add Floor, Remove and *)
(* the gross-area field.                                                   *)
(***************************************************************************)
\* largest length of the floor list and largest floor id explored
MaxFloorList == 4
MaxFloorId == 5

\* Math.max(...floors.map(f => f.id)) of a non-empty list
MaxId(fl) ==
    CHOOSE m \in {fl[i].id : i \in DOMAIN fl} :
        \A i \in DOMAIN fl : fl[i].id <= m

\* addFloor that numbers the new floor by the length of the list
addFloorOf_byLength(fl) ==
    LET newId == Len(fl) + 1
    IN  Append(fl, [id |-> newId, name |-> "Floor", grossArea |-> 1200])

\* the list after addFloor(); the name `Floor ${newId}` is kept as "Floor"
addFloorOf(fl) ==
    LET newId == IF Len(fl) > 0 THEN MaxId(fl) + 1 ELSE 1
    IN  Append(fl, [id |-> newId, name |-> "Floor", grossArea |-> 1200])

\* floors.filter(f => f.id !== id)
removeFloorOf(fl, id) == SelectSeq(fl, LAMBDA f : f.id # id)

\* floors.map(f => f.id === id ? {...f, [field]: value} : f)
floorChangeOf(fl, id, field, value) ==
    [i \in DOMAIN fl |->
        IF fl[i].id = id THEN [fl[i] EXCEPT ![field] = value] ELSE fl[i]]

\* what the floor handlers leave alone
FloorFrame ==
    UNCHANGED <<inputs, items, surroundings, identificationText,
                collisionItemKey, pendingTimers, isDragging, offset,
                session, events, calc, storage, pristine>>

addFloor ==
    /\ Len(floors) < MaxFloorList
    /\ floors' = addFloorOf(floors)
    /\ floors'[Len(floors')].id <= MaxFloorId
    /\ last' = Event("addFloor", NULL, "id", floors'[Len(floors')].id,
                     Pt(0, 0), TRUE, FALSE)
    /\ FloorFrame

removeFloor(id) ==
    /\ floors' = removeFloorOf(floors, id)
    /\ last' = Event("removeFloor", NULL, "id", id, Pt(0, 0), TRUE, FALSE)
    /\ FloorFrame

floorChange(id, field, value) ==
    /\ floors' = floorChangeOf(floors, id, field, value)
    /\ last' = Event("floorChange", NULL, "id", id, Pt(0, 0), TRUE, FALSE)
    /\ FloorFrame

FloorNext ==
    \/ addFloor
    \/ \E i \in DOMAIN floors : removeFloor(floors[i].id)
    \/ \E i \in DOMAIN floors, v \in FloorAreaVals :
          floorChange(floors[i].id, "grossArea", v)

FloorSpec == Init /\ [][FloorNext]_vars

\* the buildable envelope [setbackLeft, plotWidth - setbackRight] x
\* [setbackFront, plotLength - setbackBack] contains the rectangle of item at pos
InsideEnvelope(inp, item, pos) ==
    /\ inp.setbackLeft <= pos.x
    /\ pos.x + item.width <= inp.plotWidth - inp.setbackRight
    /\ inp.setbackFront <= pos.y
    /\ pos.y + item.length <= inp.plotLength - inp.setbackBack

\* item k placed at candidate c overlaps another item whose enabled flag is en
OverlapsOther(k, c, en) ==
    \E b \in Keys \ {k} :
        /\ items[b].enabled = en
        /\ checkCollision([items[k] EXCEPT !.position = c], items[b])

\* the step is a handleDragMove of an open session (it called onPositionChange)
MoveStep == last'.op = "dragMove" /\ events' = events + 1

\* the step is a call of handleItemChange
ItemChangeStep == last'.op = "itemChange" /\ events' = events + 1

\* C1: the position reported by a drag move places the whole rectangle of the
\* dragged item inside the buildable envelope, whatever the item's size.
C1_DragStaysInEnvelope ==
    last.op = "dragMove" =>
        InsideEnvelope(inputs, items[last.key], last.cand)

\* C2: a move whose candidate overlaps the current rectangle of another
\* enabled item leaves the whole items map as it was before the call.
C2_OverlapKeepsItems ==
    [][(MoveStep /\ items[last'.key].enabled
          /\ OverlapsOther(last'.key, last'.cand, TRUE))
       => items' = items]_vars

\* C2 witness: the staircase sits at (5,5) and the lift, moved to candidate
\* (8,8), was rejected and is not at (8,8).
C2_Witness ==
    /\ last.op = "dragMove" /\ last.key = "lift" /\ last.cand = Pt(8, 8)
    /\ ~last.accepted
    /\ items["staircase"].enabled /\ items["staircase"].position = Pt(5, 5)
    /\ items["lift"].position # Pt(8, 8)

\* C3: no two enabled items have overlapping rectangles.
C3_NoEnabledOverlap ==
    \A a \in Keys, b \in Keys :
        (a # b /\ items[a].enabled /\ items[b].enabled)
            => ~checkCollision(items[a], items[b])

\* C4: the rectangle of every enabled item lies inside the current buildable
\* envelope.
C4_EnabledInsideEnvelope ==
    \A k \in Keys :
        items[k].enabled => InsideEnvelope(inputs, items[k], items[k].position)

\* C5: a move to a position that overlaps a disabled item and no enabled item
\* is accepted: the position becomes the candidate and no collision signal
\* (and no timer) is raised by the call.
C5_DisabledItemsIgnored ==
    [][(MoveStep /\ OverlapsOther(last'.key, last'.cand, FALSE)
          /\ ~OverlapsOther(last'.key, last'.cand, TRUE))
       => /\ items'[last'.key].position = last'.cand
          /\ collisionItemKey' = collisionItemKey
          /\ pendingTimers' = pendingTimers]_vars

\* C5 witness: the last move was accepted and put the dragged item on top of
\* the rectangle of a disabled item, and it did move the item.
C5_Witness ==
    /\ last.op = "dragMove" /\ last.accepted
    /\ items[last.key].position = last.cand
    /\ last.cand # session.start
    /\ \E b \in Keys \ {last.key} :
          ~items[b].enabled /\ checkCollision(items[last.key], items[b])

\* C6: handleItemChange(key, 'enabled', false) on an enabled item always
\* leaves that item disabled.
C6_DisableAlwaysWorks ==
    (last.op = "itemChange" /\ last.field = "enabled" /\ last.value = 0)
        => ~items[last.key].enabled

\* C7: when the clamped candidate overlaps no other enabled item, the item's
\* authoritative position is exactly the candidate after the same call.
C7_FreeCandidateAccepted ==
    [][(MoveStep /\ ~OverlapsOther(last'.key, last'.cand, TRUE))
       => items'[last'.key].position = last'.cand]_vars

\* C7 witness: an accepted move changed both coordinates of the dragged item.
C7_Witness ==
    /\ last.op = "dragMove" /\ last.accepted
    /\ items[last.key].position = last.cand
    /\ last.cand.x # session.start.x /\ last.cand.y # session.start.y

\* C8: a width edit above the buildable width, or a length edit above the
\* buildable length, changes nothing of the application state.
C8_OversizeEditIsNoOp ==
    [][(ItemChangeStep
          /\ \/ (last'.field = "width" /\ last'.value > buildableWidth(inputs))
             \/ (last'.field = "length" /\ last'.value > buildableLength(inputs)))
       => UNCHANGED <<inputs, items, collisionItemKey, pendingTimers,
                      isDragging, offset, session>>]_vars

\* C8 witness: the last operation was a width edit above the buildable width
\* that would not have collided with anything, and the item kept its width.
C8_Witness ==
    /\ last.op = "itemChange" /\ last.field = "width"
    /\ last.value > buildableWidth(inputs)
    /\ items[last.key].width # last.value
    /\ \A b \in Keys \ {last.key} :
          ~(items[b].enabled /\
            checkCollision([items[last.key] EXCEPT !.width = last.value], items[b]))

\* C9: in a drag session with no clamped and no rejected move, after every
\* move the item is at its position at drag start plus the pointer's
\* displacement since drag start.
C9_TracksGrabPoint ==
    (session.key # NULL /\ session.clean /\ last.op = "dragMove")
        => items[session.key].position =
              Pt(session.start.x + session.current.x - session.pointer.x,
                 session.start.y + session.current.y - session.pointer.y)

\* C10: after an accepted move the collision signal is cleared
\* (collisionItemKey is null).
C10_AcceptedMoveClearsSignal ==
    (last.op = "dragMove" /\ last.accepted) => collisionItemKey = NULL

\* C11: when a move of item A is rejected, the collision signal names an item
\* other than A that is enabled and whose rectangle overlaps A's candidate
\* rectangle.
C11_SignalNamesCollider ==
    [][(MoveStep /\ ~last'.accepted)
       => /\ collisionItemKey' \in Keys \ {last'.key}
          /\ items[collisionItemKey'].enabled
          /\ checkCollision([items[last'.key] EXCEPT !.position = last'.cand],
                            items[collisionItemKey'])]_vars

\* C11 witness: a rejected move raised the signal for an enabled item that the
\* candidate overlaps, while some other enabled item is clear of the candidate.
C11_Witness ==
    /\ last.op = "dragMove" /\ ~last.accepted
    /\ collisionItemKey \in Keys \ {last.key}
    /\ items[collisionItemKey].enabled
    /\ checkCollision([items[last.key] EXCEPT !.position = last.cand],
                      items[collisionItemKey])
    /\ \E b \in Keys \ {last.key, collisionItemKey} :
          /\ items[b].enabled
          /\ ~checkCollision([items[last.key] EXCEPT !.position = last.cand],
                             items[b])

\* C12: a pointer move delivered while no item's isDragging is true calls
\* onPositionChange zero times: it is never a drag move, no item changes and
\* no collision signal or timer is raised.
C12_IdleMoveIsNoOp ==
    [][(NoDrag /\ last'.op \in {"idleMove", "dragMove"})
       => /\ last'.op = "idleMove"
          /\ UNCHANGED <<inputs, items, siteData, collisionItemKey,
                         pendingTimers, isDragging, offset, events>>]_vars

\* C12 witness: a pointer move arrived after a drag session that moved an item
\* was closed, and before any later session.
C12_Witness ==
    /\ last.op = "idleMove" /\ NoDrag
    /\ \E k \in Keys :
          /\ offset[k] # [x |-> R(0), y |-> R(0)]
          /\ items[k].position # INITIAL_STATE.items[k].position

\* C13: after handleDragEnd the session is idle and the offset stored by the
\* preceding handleDragStart is back at its initial value {x: 0, y: 0}.
C13_EndDragClearsOffset ==
    last.op = "dragEnd"
        => /\ NoDrag
           /\ offset[last.key] = [x |-> R(0), y |-> R(0)]

\* C14: a call of handlePositionChange for item A, accepted or rejected,
\* leaves the position of every other item unchanged.
C14_OthersNeverMoved ==
    [][MoveStep
       => \A b \in Keys \ {last'.key} :
             items'[b].position = items[b].position]_vars

\* C14 witness: two calls for the lift, one accepted and one rejected, happened
\* and every other item is where INITIAL_STATE put it.
C14_Witness ==
    /\ last.op = "dragMove" /\ last.key = "lift" /\ events = 2
    /\ ~last.accepted
    /\ items["lift"].position # INITIAL_STATE.items["lift"].position
    /\ \A b \in Keys \ {"lift"} :
          items[b].position = INITIAL_STATE.items[b].position

\* the step is a confirmed resetData
ResetStep == last'.op = "reset" /\ last'.accepted /\ events' = events + 1

\* C15 (as stated): every operation of useAppData other than
\* handlePositionChange leaves the position of every item unchanged.
C15_OnlyDragWritesPositions ==
    [][~MoveStep
       => \A k \in Keys : items'[k].position = items[k].position]_vars

\* C15 (amended): every operation other than handlePositionChange and a
\* confirmed resetData leaves every item position unchanged, and a confirmed
\* resetData puts every item at its INITIAL_STATE position.
C15_OnlyDragAndResetWritePositions ==
    [][/\ (~MoveStep /\ ~ResetStep)
          => \A k \in Keys : items'[k].position = items[k].position
       /\ ResetStep
          => \A k \in Keys :
                items'[k].position = INITIAL_STATE.items[k].position]_vars

\* C15 witness: after an item was dragged away from its initial position, an
\* accepted edit of another operation changed the state and no position.
C15_Witness ==
    /\ last.op \in {"itemChange", "setInput", "floorChange"} /\ last.accepted
    /\ events = 2
    /\ \E k \in Keys :
          items[k].position # INITIAL_STATE.items[k].position

\* C16: for non-negative plot sizes and setbacks the calculator's
\* buildableWidth and buildableLength are >= 0, also when the setbacks sum to
\* more than the plot dimension.
C16_BuildableNonNegative ==
    LET c == calculations(inputs, items, floors)
    IN  (\A f \in DOMAIN inputs : inputs[f] >= 0)
            => c.buildableWidth >= 0 /\ c.buildableLength >= 0

\* a calculator has been applied to the drawn input
Calculated ==
    calc.variant \in {"footprint", "floorList", "deduction", "useAppData",
                      "rawFootprint"}

\* C17: whenever plotArea is 0 the calculator returns far = 0 and (where it
\* computes one) groundCoverage = 0, whatever the floors, footprint and floor
\* areas are.
C17_ZeroPlotAreaGivesZero ==
    (Calculated /\ calc.out.plotArea = 0)
        => /\ calc.out.far = R(0)
           /\ calc.variant \in {"footprint", "floorList"}
                 => calc.out.groundCoverage = R(0)

\* C17 witness: the floor-list calculator was applied to a plot of width 0
\* with a positive total built-up area, and both ratios are 0.
C17_Witness ==
    /\ calc.variant = "floorList"
    /\ calc.in.plotWidth = 0 /\ calc.in.plotLength > 0
    /\ calc.out.totalBUA > 0
    /\ calc.out.far = R(0) /\ calc.out.groundCoverage = R(0)

\* C18: the clamped footprint never exceeds the buildable envelope, and each
\* actual dimension equals the requested one whenever the requested one fits.
C18_FootprintClamped ==
    calc.variant = "footprint"
        => /\ calc.out.actualBuildingWidth <= calc.out.buildableWidth
           /\ calc.out.actualBuildingLength <= calc.out.buildableLength
           /\ calc.in.buildingFootprintWidth <= calc.out.buildableWidth
                 => calc.out.actualBuildingWidth = calc.in.buildingFootprintWidth
           /\ calc.in.buildingFootprintLength <= calc.out.buildableLength
                 => calc.out.actualBuildingLength =
                       calc.in.buildingFootprintLength

\* C18 witness: the requested width did not fit and was clamped to the
\* buildable width, while the requested length fitted and was kept.
C18_Witness ==
    /\ calc.variant = "footprint"
    /\ calc.in.buildingFootprintWidth > calc.out.buildableWidth
    /\ calc.out.actualBuildingWidth = calc.out.buildableWidth
    /\ calc.out.buildableWidth > 0
    /\ calc.in.buildingFootprintLength < calc.out.buildableLength
    /\ calc.out.actualBuildingLength = calc.in.buildingFootprintLength

\* C19: isBuildingWithinBuildableArea is false exactly when the clamp changed
\* at least one dimension of the requested footprint.
C19_FlagFromRequested ==
    calc.variant = "footprint"
        => (~calc.out.isBuildingWithinBuildableArea
              <=> \/ calc.out.actualBuildingWidth
                        < calc.in.buildingFootprintWidth
                  \/ calc.out.actualBuildingLength
                        < calc.in.buildingFootprintLength)

\* C19 witness: the flag is false although the clamped footprint fits the
\* envelope.
C19_Witness ==
    /\ calc.variant = "footprint"
    /\ ~calc.out.isBuildingWithinBuildableArea
    /\ calc.out.actualBuildingLength < calc.in.buildingFootprintLength
    /\ calc.out.actualBuildingWidth <= calc.out.buildableWidth
    /\ calc.out.actualBuildingLength <= calc.out.buildableLength

\* area of an item of the drawn deduction input, 0 when it is disabled
AreaOf(k) ==
    IF calc.in.items[k].enabled
    THEN calc.in.items[k].width * calc.in.items[k].length
    ELSE 0

FarExample ==
    /\ calc.in.plotWidth = 50 /\ calc.in.plotLength = 100
    /\ calc.in.setbackFront = 15 /\ calc.in.setbackBack = 10
    /\ calc.in.buildingFootprintWidth = 30
    /\ calc.in.buildingFootprintLength = 60
    /\ calc.in.floors = 3
    /\ calc.in.buildingFootprintWidth <= calc.out.buildableWidth

\* C24: in the footprint calculator totalBUA = groundFloorArea * floors and,
\* for plotArea > 0, far = totalBUA / plotArea; the worked example yields
\* buildableLength 75, groundFloorArea 1800, totalBUA 5400, plotArea 5000 and
\* FAR 1.08 (= 27/25).
C24_FarOfFootprint ==
    calc.variant = "footprint"
        => /\ calc.out.totalBUA = calc.out.groundFloorArea * calc.in.floors
           /\ calc.out.plotArea > 0
                 => /\ IsFinite(calc.out.far)
                    /\ calc.out.far[1] * calc.out.plotArea
                          = calc.out.totalBUA * calc.out.far[2]
           /\ FarExample
                 => /\ calc.out.buildableLength = 75
                    /\ calc.out.groundFloorArea = 1800
                    /\ calc.out.totalBUA = 5400
                    /\ calc.out.plotArea = 5000
                    /\ calc.out.far = <<27, 25>>

\* C24 witness: the footprint calculator was applied to the worked example
\* and returned FAR 27/25.
C24_Witness ==
    /\ calc.variant = "footprint"
    /\ FarExample
    /\ calc.out.totalBUA = 5400
    /\ calc.out.far = <<27, 25>>

\* x is a number that is neither NaN nor infinite nor negative
NonNegative(x) == IsFinite(x) /\ x[1] >= 0

\* C21: whatever is typed (empty text, non-number text, a negative number)
\* into a plot, item or floor-area field, every output of the calculator is a
\* non-negative number and never NaN.
C21_OutputsNonNegativeNumbers ==
    /\ calc.variant = "rawFootprint"
          => /\ \A f \in {"plotArea", "buildableArea", "groundFloorArea",
                           "totalBUA", "buildableWidth", "buildableLength",
                           "actualBuildingWidth", "actualBuildingLength"} :
                    calc.out[f] >= 0
             /\ NonNegative(calc.out.far)
             /\ NonNegative(calc.out.groundCoverage)
    /\ calc.variant = "rawAppData"
          => /\ \A f \in {"plotArea", "buildableArea", "setbackArea",
                           "parkingArea", "totalNetBUA", "far"} :
                    NonNegative(calc.out[f])
             /\ \A i \in DOMAIN calc.out.floorCalculations :
                    NonNegative(calc.out.floorCalculations[i].netBua)

\* C28: a collision signal lasts its full 500 ms: while the timer of some
\* rejection has not fired yet (the newest rejection is among them), the
\* signal is still set, so the timer of an older rejection never clears the
\* signal of a newer one.
C28_SignalNotCutShort == pendingTimers > 0 => collisionItemKey # NULL

\* the open intervals (a, a + la) and (b, b + lb) have a point in common
OpenOverlap(a, la, b, lb) == IMax(a, b) < IMin(a + la, b + lb)

\* the rectangles of item1 and item2 share interior area
SharesInterior(item1, item2) ==
    /\ OpenOverlap(item1.position.x, item1.width,
                   item2.position.x, item2.width)
    /\ OpenOverlap(item1.position.y, item1.length,
                   item2.position.y, item2.length)

\* the closed rectangles meet (an edge or a corner) without sharing interior
Touches(item1, item2) ==
    /\ ~SharesInterior(item1, item2)
    /\ IMax(item1.position.x, item2.position.x)
          <= IMin(item1.position.x + item1.width,
                  item2.position.x + item2.width)
    /\ IMax(item1.position.y, item2.position.y)
          <= IMin(item1.position.y + item1.length,
                  item2.position.y + item2.length)

\* the dragged item of the last move, placed at the candidate of that move
Candidate == [items[last.key] EXCEPT !.position = last.cand]

\* C26: checkCollision is the strict rectangle-overlap test: two rectangles
\* collide exactly when they share interior area, so a candidate that only
\* touches other enabled items along an edge or at a corner is accepted.
C26_StrictOverlapTest ==
    /\ \A a \in Keys : \A b \in Keys \ {a} :
           checkCollision(items[a], items[b])
               <=> SharesInterior(items[a], items[b])
    /\ (last.op = "dragMove" /\ items[last.key].enabled)
          => LET free == ~\E b \in Keys \ {last.key} :
                              /\ items[b].enabled
                              /\ SharesInterior(Candidate, items[b])
             IN  /\ free <=> last.accepted
                 /\ free => items[last.key].position = last.cand

C26_Witness ==
    /\ last.op = "dragMove"
    /\ items[last.key].position = last.cand
    /\ \E b \in Keys \ {last.key} :
           items[b].enabled /\ Touches(Candidate, items[b])

\* the item of the last handleItemChange with the edited width or length
Edited ==
    IF last.field = "width" THEN [items[last.key] EXCEPT !.width = last.value]
    ELSE [items[last.key] EXCEPT !.length = last.value]

\* the last operation was a width or length edit within the buildable width
\* or length whose edited rectangle overlaps another enabled item
OverlappingDimEdit ==
    /\ last.op = "itemChange"
    /\ \/ last.field = "width" /\ last.value <= buildableWidth(inputs)
       \/ last.field = "length" /\ last.value <= buildableLength(inputs)
    /\ \E b \in Keys \ {last.key} :
           items[b].enabled /\ SharesInterior(Edited, items[b])

\* C29: a width or length edit that would make the item overlap another
\* enabled item is a no-op, even when the new dimension is within the
\* buildable width or length: the items map stays as it was.
C29_OverlappingEditIsNoOp ==
    OverlappingDimEdit
        => /\ ~last.accepted
           /\ items[last.key].position = last.cand

C29_Witness ==
    /\ OverlappingDimEdit
    /\ Edited # items[last.key]
    /\ ~\E b \in Keys \ {last.key} :
           items[b].enabled /\ SharesInterior(items[last.key], items[b])

\* the candidate c of one axis held in [min, max] (rationals)
HeldIn(c, min, max) ==
    IF ~RLeq(min, c) THEN min ELSE IF ~RLeq(c, max) THEN max ELSE c

\* the position in feet that containment yields for the unclamped target t
\* (SVG user units) of an item under the inputs inp
Contained(inp, item, t) ==
    [x |-> HeldIn(RDiv(t.x, scale(inp)), R(inp.setbackLeft),
                  R(inp.setbackLeft + buildableWidth(inp) - item.width)),
     y |-> HeldIn(RDiv(t.y, scale(inp)), R(inp.setbackFront),
                  R(inp.setbackFront + buildableLength(inp) - item.length))]

\* the item is no larger than the buildable envelope
Fits(inp, item) ==
    item.width <= buildableWidth(inp) /\ item.length <= buildableLength(inp)

\* the position in feet handleDragMove reports for a target given in feet
ClampFeet(inp, item, c) ==
    LET n == dragClamp(constraints(inp, item),
                       [x |-> RMul(R(c.x), scale(inp)),
                        y |-> RMul(R(c.y), scale(inp))])
    IN  [x |-> RDiv(n.x, scale(inp)), y |-> RDiv(n.y, scale(inp))]

\* C25: for an item that fits the buildable envelope, the reported position
\* is per axis the candidate if it lies in [min, max], min if it is below
\* and max if it is above, with min the envelope origin and max the origin
\* plus the envelope size minus the item size; on the 60 x 40 plot with
\* setbacks 5 a 10 x 6 item at candidate (0,0) goes to (5,5) and at
\* (100,100) to (45,29).
C25_ContainmentClamps ==
    [][(MoveStep /\ Fits(inputs, items[last'.key]))
       => LET want == Contained(inputs, items[last'.key],
                                dragTarget(last'.key, session'.current))
          IN  /\ want.x = R(last'.cand.x) /\ want.y = R(last'.cand.y)
              /\ ClampFeet(INITIAL_STATE.inputs,
                           INITIAL_STATE.items["staircase"], Pt(0, 0))
                   = [x |-> R(5), y |-> R(5)]
              /\ ClampFeet(INITIAL_STATE.inputs,
                           INITIAL_STATE.items["staircase"], Pt(100, 100))
                   = [x |-> R(45), y |-> R(29)]]_vars

\* C25 witness: the 10 x 6 staircase was dragged beyond the far corner of the
\* 60 x 40 plot with setbacks 5 and the move reported (45, 29).
C25_Witness ==
    /\ last.op = "dragMove" /\ last.key = "staircase" /\ last.clamped
    /\ inputs = INITIAL_STATE.inputs
    /\ items["staircase"].width = 10 /\ items["staircase"].length = 6
    /\ session.current = Pt(100, 100)
    /\ last.cand = Pt(45, 29)

\* the ids of the floor list fl are pairwise distinct
IdsDistinct(fl) ==
    \A i \in DOMAIN fl : \A j \in DOMAIN fl : fl[i].id = fl[j].id => i = j

\* the positions of fl that hold the id
WithId(fl, id) == {i \in DOMAIN fl : fl[i].id = id}

\* C30: under every sequence of Add Floor and Remove from the default floor
\* list the floor ids stay pairwise distinct, a Remove takes exactly one
\* floor off the list and an edit of a floor field changes exactly one floor.
C30_FloorIdsDistinct ==
    [][/\ IdsDistinct(floors) /\ IdsDistinct(floors')
       /\ last'.op = "removeFloor"
            => /\ Len(floors') = Len(floors) - 1
               /\ Cardinality(WithId(floors, last'.value)) = 1
               /\ WithId(floors', last'.value) = {}
       /\ last'.op = "floorChange"
            => /\ Len(floors') = Len(floors)
               /\ Cardinality(WithId(floors, last'.value)) = 1
               /\ \A i \in DOMAIN floors :
                      floors[i].id # last'.value => floors'[i] = floors[i]]_vars

\* C30 witness: a floor was removed from a list that had been extended after
\* an earlier removal (the new id is above the number of floors).
C30_Witness ==
    /\ last.op = "removeFloor"
    /\ Len(floors) >= 2
    /\ \E i \in DOMAIN floors : floors[i].id > Len(floors) + 1

(***************************************************************************)
(* Placement from a stored layout: useAppData starts from the snapshot a   *)
(* previous session saved, here one in which no two enabled items overlap, *)
(* and only the drag handlers and handleItemChange run.                    *)
(***************************************************************************)
\* no two enabled items of the map its share interior area
Separate(its) ==
    \A a \in Keys : \A b \in Keys \ {a} :
        (its[a].enabled /\ its[b].enabled) => ~SharesInterior(its[a], its[b])

\* positions saved by a previous session: the compiled-in ones, and the
\* items packed side by side inside the envelope
SavedPositions ==
    {[k \in Keys |-> INITIAL_STATE.items[k].position],
     [k \in Keys |->
        CASE k = "house"     -> Pt(5, 5)
          [] k = "parking"   -> Pt(35, 5)
          [] k = "staircase" -> Pt(35, 20)
          [] k = "lift"      -> Pt(45, 20)]}

\* enabled flags of the saved snapshots: every item on, or all but parking
SavedFlags == {en \in [Keys -> BOOLEAN] : \A k \in Keys \ {"parking"} : en[k]}

\* items maps of saved snapshots in which no two enabled items overlap
SavedLayouts ==
    {its \in {[k \in Keys |->
                  [INITIAL_STATE.items[k] EXCEPT !.enabled = en[k],
                                                 !.position = pos[k]]] :
                  en \in SavedFlags, pos \in SavedPositions} :
        Separate(its)}

PlaceInit ==
    /\ inputs = INITIAL_STATE.inputs
    /\ items \in SavedLayouts
    /\ floors = INITIAL_STATE.floors
    /\ surroundings = INITIAL_STATE.surroundings
    /\ identificationText = INITIAL_STATE.identificationText
    /\ calc = NoCalc
    /\ collisionItemKey = NULL
    /\ pendingTimers = 0
    /\ isDragging = [k \in Keys |-> FALSE]
    /\ offset = [k \in Keys |-> [x |-> R(0), y |-> R(0)]]
    /\ session = NoSession
    /\ last = Event("init", NULL, NULL, 0, Pt(0, 0), FALSE, FALSE)
    /\ events = 0
    /\ storage = {Stringify(AppState)}
    /\ pristine = FALSE

PlaceNext ==
    \/ \E k \in Keys, g \in Grabs : handleDragStart(k, g)
    \/ \E p \in Pointers : handleDragMove(p)
    \/ handleDragEnd
    \/ \E k \in Keys, v \in ItemDimVals : handleItemChange(k, "width", v)
    \/ \E k \in Keys, v \in ItemDimVals : handleItemChange(k, "length", v)
    \/ \E k \in Keys : handleItemChange(k, "enabled", ~items[k].enabled)
    \/ collisionTimeout

PlaceSpec == PlaceInit /\ [][PlaceNext]_vars

\* C27: from a state in which no two enabled items overlap, every sequence
\* of position changes and item edits (width, length, enabled) leads only to
\* states in which no two enabled items overlap.
C27_NonOverlapPreserved == Separate(items)

\* C27 witness: after two operations on a stored layout, the last one an
\* accepted move, at least three items are enabled and the moved item lies
\* flush against another enabled item.
C27_Witness ==
    /\ events >= 2 /\ last.op = "dragMove" /\ last.accepted
    /\ items[last.key].position = last.cand
    /\ Cardinality({k \in Keys : items[k].enabled}) >= 3
    /\ \E b \in Keys \ {last.key} :
           items[b].enabled /\ Touches(items[last.key], items[b])

(***************************************************************************)
(* Sessions: the operations of useAppData that write appState, together    *)
(* with the page being loaded again from the store.                        *)
(***************************************************************************)
\* pointer positions and the item dragged in the sessions explored
PersistPointers == {Pt(8, 8), Pt(45, 10)}
PersistKeys == {"staircase", "lift"}

PersistNext ==
    \/ reload
    \/ \E k \in PersistKeys, g \in Grabs : handleDragStart(k, g)
    \/ \E p \in PersistPointers : handleDragMove(p)
    \/ handleDragEnd
    \/ \E k \in PersistKeys, v \in ItemDimVals : handleItemChange(k, "width", v)
    \/ \E k \in PersistKeys : handleItemChange(k, "enabled", ~items[k].enabled)
    \/ \E e \in InputEdits : setInput(e[1], e[2])
    \/ \E c \in BOOLEAN : resetData(c)
    \/ \E i \in DOMAIN floors, v \in FloorAreaVals :
          handleFloorChange(floors[i].id, "grossArea", v)
    \/ \E t \in SiteTexts : setSurroundings("north", t)
    \/ \E t \in SiteTexts : setIdentificationText(t)
    \/ collisionTimeout

PersistSpec == Init /\ [][PersistNext]_vars

\* a new session started from the store begins with the current appState
RoundTrip == Load(storage) = AppState

\* C22 (as stated): after any sequence of state changes the store holds the
\* serialization of the current appState, and a new session that loads it
\* starts with inputs, items, floors, surroundings and identificationText
\* equal to those of the saved state.
C22_StoreHoldsCurrentState ==
    /\ storage = {Stringify(AppState)}
    /\ RoundTrip

\* C22 (amended): the store holds the serialization of the current appState,
\* or it is empty and appState is INITIAL_STATE (a reset confirmed while
\* appState already was the INITIAL_STATE object); in both cases a new
\* session starts with the current inputs, items, floors, surroundings and
\* identificationText.
C22_StoreRestoresCurrentState ==
    /\ \/ storage = {Stringify(AppState)}
       \/ storage = {} /\ AppState = INITIAL_STATE
    /\ RoundTrip
    /\ last.op = "reload" => storage = {Stringify(AppState)}

\* C22 witness: a session was started from a snapshot that differs from the
\* defaults in a position, an enabled flag and a text.
C22_Witness ==
    /\ last.op = "reload"
    /\ \E k \in Keys : items[k].position # INITIAL_STATE.items[k].position
    /\ \E k \in Keys : ~items[k].enabled
    /\ storage = {Stringify(AppState)}

\* the step is a resetData that window.confirm turned down
DeclinedResetStep ==
    last'.op = "reset" /\ ~last'.accepted /\ events' = events + 1

\* C23: after a confirmed resetData appState is INITIAL_STATE and the store
\* holds no snapshot of the state before the reset (it is empty or holds the
\* snapshot of INITIAL_STATE); a reset that is not confirmed changes neither
\* appState nor the store.
C23_ResetClearsSnapshot ==
    [][/\ ResetStep
          => /\ AppState' = INITIAL_STATE
             /\ storage' \in {{}, {Stringify(INITIAL_STATE)}}
             /\ AppState # INITIAL_STATE => storage' # {Stringify(AppState)}
             /\ Load(storage') = INITIAL_STATE
       /\ DeclinedResetStep => UNCHANGED <<inputs, items, siteData, storage>>]_vars

\* C23 witness: a confirmed reset has just run on a state that had been
\* changed and saved, and the defaults are back.
C23_Witness ==
    /\ last.op = "reset" /\ last.accepted /\ events = 2
    /\ AppState = INITIAL_STATE
    /\ storage = {Stringify(INITIAL_STATE)}

====
